---- MODULE Spec2Model ----
(***************************************************************************)
(* Model of the structural chunk extraction of the repository:             *)
(* server/app/parser/tools/ast_chunker.py (class ASTChunker).              *)
(*                                                                         *)
(* A Python str is a sequence of one-character strings.  The texts that    *)
(* the chunker itself produces (header, footer, fallback marker) are kept  *)
(* as single elements of such a sequence, followed by the "\n" element the *)
(* code puts after them.                                                   *)
(***************************************************************************)
EXTENDS Integers, Sequences, FiniteSets, TLC

VARIABLES
    parsers,         \* self.parsers: the extensions that have a parser
    content,         \* argument `content` of the call
    file_extension,  \* argument `file_extension` of the call
    parse,           \* what parser.parse / the walk / the formatter will do
    pc,              \* "ready", then which operation has been applied
    result,          \* the list the operation returned
    raised,          \* TRUE iff the operation ended with an exception
    parse_calls,     \* number of parser.parse invocations made by the call
    classified,      \* kind, extension and category of the last classification
    extracted,       \* the dict `structures` the last walk of a tree returned
    visited,         \* (history) the nodes the last walk ran the body of traverse on
    failing,         \* the grammar modules whose initialisation raises in this process
    grammar_inits,   \* (history) per grammar, the Language/Parser pairs built so far
    load_warnings,   \* (history) per grammar, the warnings logged so far
    chunkers,        \* (history) the ASTChunker objects constructed so far
    path,            \* (history) the stages the extraction has been in
    docs,            \* the Documents built from the chunks of the file
    calls,           \* (history) the calls of chunk made so far, with their results
    repos,           \* repo_manager: the directories under repos/ and the calls made
    fixed,           \* FixedSizeChunker: its configuration and the state of its loop
    loader,          \* load_codebase_as_chunked_docs: files left and its counters
    store,           \* PineconeVectorStore: the index and the state of add_documents
    cache,           \* SemanticQueryCache: its entries and its clock
    stream           \* the streaming query: its position and the events emitted

vars == <<parsers, content, file_extension, parse, pc, result, raised,
          parse_calls, classified, extracted, visited, failing, grammar_inits,
          load_warnings, chunkers, path, docs, calls, repos, fixed, loader, store,
          cache, stream>>

\* the variables of the walk, of the process and of the pipelines
walkVars == <<extracted, visited>>
processVars == <<failing, grammar_inits, load_warnings, chunkers>>
pipelineVars == <<path, docs, calls>>
serviceVars == <<repos, fixed, loader, store, cache, stream>>

-----------------------------------------------------------------------------
(* Bounds of the model *)

\* the inputs are the texts of at most MaxChars characters, parsed into a root
\* with at most MaxChildren children, and the longer texts made of at most
\* MaxRuns runs of one unit repeated, parsed into a root alone
MaxChars == 2
MaxChildren == 2
MaxRuns == 2

Alphabet == {"x", " ", "\n", "é"}
Units == { <<"x">>, <<" ">>, <<"\n">>, <<"x", "\n">>, <<"é">> }
RunLens == {1, 50}

-----------------------------------------------------------------------------
(* Python str primitives *)

Min(a, b) == IF a < b THEN a ELSE b

Whitespace == {" ", "\n"}

\* not s.strip()
IsBlank(s) == \A i \in DOMAIN s : s[i] \in Whitespace

\* s[a:b] with 0 <= a, 0 <= b (Python clamps both ends to len(s))
Slice(s, a, b) == SubSeq(s, Min(a, Len(s)) + 1, Min(b, Len(s)))

RECURSIVE SplitRange(_, _, _)
\* the lines of s[lo..hi]; the two halves are split apart and the line that the
\* cut went through is put together again
SplitRange(s, lo, hi) ==
    IF lo > hi THEN << <<>> >>
    ELSE IF lo = hi THEN (IF s[lo] = "\n" THEN << <<>>, <<>> >> ELSE << <<s[lo]>> >>)
    ELSE LET mid == (lo + hi) \div 2
             l == SplitRange(s, lo, mid)
             r == SplitRange(s, mid + 1, hi)
         IN  (SubSeq(l, 1, Len(l) - 1) \o << l[Len(l)] \o r[1] >>) \o Tail(r)

\* s.split('\n')
Split(s) == SplitRange(s, 1, Len(s))

RECURSIVE JoinRange(_, _, _)
JoinRange(lines, lo, hi) ==
    IF lo > hi THEN <<>>
    ELSE IF lo = hi THEN lines[lo]
    ELSE LET mid == (lo + hi) \div 2
         IN  (JoinRange(lines, lo, mid) \o <<"\n">>) \o JoinRange(lines, mid + 1, hi)

\* '\n'.join(lines)
Join(lines) == JoinRange(lines, 1, Len(lines))

\* number of bytes of one character in UTF-8
Utf8Width(c) == IF c = "é" THEN 2 ELSE 1

\* byte offset, in bytes(s, "utf8"), of the character with 0-based index i
ByteOffset(s, i) == i + Cardinality({ k \in 1..i : Utf8Width(s[k]) = 2 })

\* 0-based row of the character with 0-based index i
Row(s, i) == Cardinality({ k \in 1..i : s[k] = "\n" })

-----------------------------------------------------------------------------
(* ASTChunker._chunk_with_fallback *)

max_lines == 50

FallbackMarker(ext) == "// Fallback chunk for " \o ext

\* a windower that forgets the marker line
FallbackChunk_NoMarker(ext, chunk_text) == chunk_text

\* f"// Fallback chunk for {file_extension}\n{chunk_text}"
FallbackChunk(ext, chunk_text) == <<FallbackMarker(ext), "\n">> \o chunk_text

\* one iteration of `for line in lines`, on the pair (chunks, current_chunk)
FallbackStep(st, line, ext) ==
    LET current_chunk == Append(st.current_chunk, line)
    IN  IF Len(current_chunk) >= max_lines
        THEN LET chunk_text == Join(current_chunk)
             IN  [chunks |-> IF ~IsBlank(chunk_text)
                             THEN Append(st.chunks, FallbackChunk(ext, chunk_text))
                             ELSE st.chunks,
                  current_chunk |-> <<>>]
        ELSE [chunks |-> st.chunks, current_chunk |-> current_chunk]

RECURSIVE FallbackLoop(_, _, _, _, _)
\* the iterations for lines[lo..hi], in order
FallbackLoop(st, lines, lo, hi, ext) ==
    IF lo > hi THEN st
    ELSE IF lo = hi THEN FallbackStep(st, lines[lo], ext)
    ELSE LET mid == (lo + hi) \div 2
             half == FallbackLoop(st, lines, lo, mid, ext)
         IN  \* the test has TLC evaluate the first half before it starts the second
             IF Len(half.current_chunk) < max_lines
             THEN FallbackLoop(half, lines, mid + 1, hi, ext)
             ELSE half

\* a windower without the "remaining lines" block
FallbackRest_Dropped(st, ext) == st.chunks

\* the "remaining lines" block
FallbackRest(st, ext) ==
    IF st.current_chunk # <<>> /\ ~IsBlank(Join(st.current_chunk))
    THEN Append(st.chunks, FallbackChunk(ext, Join(st.current_chunk)))
    ELSE st.chunks

ChunkWithFallback(text, ext) ==
    LET lines == Split(text)
        st == FallbackLoop([chunks |-> <<>>, current_chunk |-> <<>>],
                           lines, 1, Len(lines), ext)
        chunks == FallbackRest(st, ext)
    IN  IF chunks # <<>> THEN chunks ELSE <<text>>

-----------------------------------------------------------------------------
(* ASTChunker._init_parsers *)

None == "None"

\* (extension, module, lang_name)
language_configs ==
    << <<".py", "tree_sitter_python", "python">>,
       <<".js", "tree_sitter_javascript", "javascript">>,
       <<".jsx", "tree_sitter_javascript", "javascript">>,
       <<".ts", "tree_sitter_typescript", "typescript">>,
       <<".tsx", "tree_sitter_typescript", "typescript">>,
       <<".java", "tree_sitter_java", "java">>,
       <<".go", "tree_sitter_go", "go">>,
       <<".c", "tree_sitter_c", "c">>,
       <<".cpp", "tree_sitter_cpp", "cpp">>,
       <<".cc", "tree_sitter_cpp", "cpp">>,
       <<".cxx", "tree_sitter_cpp", "cpp">>,
       <<".h", "tree_sitter_c", "c">>,
       <<".hpp", "tree_sitter_cpp", "cpp">>,
       <<".rs", "tree_sitter_rust", "rust">>,
       <<".rb", "tree_sitter_ruby", "ruby">>,
       <<".php", "tree_sitter_php", "php">>,
       <<".swift", "tree_sitter_swift", "swift">> >>

\* a loop that ends at the first module whose initialisation raises
InitParsers_StopAtFailure(broken) ==
    LET bad == { i \in DOMAIN language_configs : language_configs[i][2] \in broken }
        ok == { i \in DOMAIN language_configs : \A j \in bad : i < j }
    IN  [ ext \in { language_configs[i][1] : i \in ok } |->
            language_configs[CHOOSE i \in ok : language_configs[i][1] = ext][2] ]

\* the dict built by the loop: an extension gets a parser unless
\* Language(module.language()) or Parser(language) raises for its module
InitParsers(broken) ==
    LET ok == { i \in DOMAIN language_configs : language_configs[i][2] \notin broken }
    IN  [ ext \in { language_configs[i][1] : i \in ok } |->
            language_configs[CHOOSE i \in ok : language_configs[i][1] = ext][2] ]

\* the grammar identifiers of language_configs
Grammars == { language_configs[i][3] : i \in DOMAIN language_configs }

\* the passes of the loop that are made for grammar g
ConfigsOf(g) == { i \in DOMAIN language_configs : language_configs[i][3] = g }

\* per grammar, the passes of one run of the loop in which
\* Language(module.language()) and Parser(language) are built
GrammarInits(b) ==
    [ g \in Grammars |->
        Cardinality({ i \in ConfigsOf(g) : language_configs[i][2] \notin b }) ]

\* per grammar, the passes of one run of the loop that end in
\* logger.warning("Could not initialize parser for ...")
LoadWarnings(b) ==
    [ g \in Grammars |->
        Cardinality({ i \in ConfigsOf(g) : language_configs[i][2] \in b }) ]

-----------------------------------------------------------------------------
(* The per-language classification tables *)

\* a Python table without the entry for the root kind
GetPythonStructureType_NoModule(node_type) ==
    IF node_type \in {"function_definition", "async_function_definition"} THEN "functions"
    ELSE IF node_type \in {"class_definition"} THEN "classes"
    ELSE IF node_type \in {"import_statement", "import_from_statement"} THEN "imports"
    ELSE IF node_type \in {"comment"} THEN "comments"
    ELSE None

GetPythonStructureType(node_type) ==
    IF node_type \in {"function_definition", "async_function_definition"} THEN "functions"
    ELSE IF node_type \in {"class_definition"} THEN "classes"
    ELSE IF node_type \in {"import_statement", "import_from_statement"} THEN "imports"
    ELSE IF node_type \in {"comment"} THEN "comments"
    ELSE IF node_type \in {"module"} THEN "modules"
    ELSE None

GetJavascriptStructureType(node_type) ==
    IF node_type \in {"function_declaration", "function_expression", "arrow_function",
                      "method_definition"} THEN "functions"
    ELSE IF node_type \in {"class_declaration", "class_expression"} THEN "classes"
    ELSE IF node_type \in {"interface_declaration"} THEN "interfaces"
    ELSE IF node_type \in {"enum_declaration"} THEN "enums"
    ELSE IF node_type \in {"import_statement", "export_statement"} THEN "imports"
    ELSE IF node_type \in {"comment"} THEN "comments"
    ELSE IF node_type \in {"program"} THEN "modules"
    ELSE None

GetJavaStructureType(node_type) ==
    IF node_type \in {"method_declaration", "constructor_declaration"} THEN "functions"
    ELSE IF node_type \in {"class_declaration", "interface_declaration",
                           "enum_declaration"} THEN "classes"
    ELSE IF node_type \in {"import_declaration"} THEN "imports"
    ELSE IF node_type \in {"comment"} THEN "comments"
    ELSE IF node_type \in {"program"} THEN "modules"
    ELSE None

GetGoStructureType(node_type) ==
    IF node_type \in {"function_declaration", "method_declaration"} THEN "functions"
    ELSE IF node_type \in {"type_declaration", "struct_type", "interface_type"} THEN "classes"
    ELSE IF node_type \in {"import_declaration"} THEN "imports"
    ELSE IF node_type \in {"comment"} THEN "comments"
    ELSE IF node_type \in {"source_file"} THEN "modules"
    ELSE None

GetCStructureType(node_type) ==
    IF node_type \in {"function_definition", "method_definition"} THEN "functions"
    ELSE IF node_type \in {"class_specifier", "struct_specifier", "union_specifier"}
         THEN "classes"
    ELSE IF node_type \in {"preproc_include", "preproc_import"} THEN "imports"
    ELSE IF node_type \in {"comment"} THEN "comments"
    ELSE IF node_type \in {"translation_unit"} THEN "modules"
    ELSE None

\* the kinds the Rust table lists for 'functions' and for 'classes'
RustFunctionKinds == {"function_item", "impl_item"}
RustClassKinds == {"struct_item", "enum_item", "trait_item", "impl_item"}

GetRustStructureType(node_type) ==
    IF node_type \in RustFunctionKinds THEN "functions"
    ELSE IF node_type \in RustClassKinds THEN "classes"
    ELSE IF node_type \in {"use_declaration"} THEN "imports"
    ELSE IF node_type \in {"comment"} THEN "comments"
    ELSE IF node_type \in {"source_file"} THEN "modules"
    ELSE None

GetRubyStructureType(node_type) ==
    IF node_type \in {"method", "singleton_method"} THEN "functions"
    ELSE IF node_type \in {"class", "module"} THEN "classes"
    ELSE IF node_type \in {"comment"} THEN "comments"
    ELSE IF node_type \in {"program"} THEN "modules"
    ELSE None

GetPhpStructureType(node_type) ==
    IF node_type \in {"method_declaration", "function_definition"} THEN "functions"
    ELSE IF node_type \in {"class_declaration", "interface_declaration",
                           "trait_declaration"} THEN "classes"
    ELSE IF node_type \in {"use_declaration"} THEN "imports"
    ELSE IF node_type \in {"comment"} THEN "comments"
    ELSE IF node_type \in {"program"} THEN "modules"
    ELSE None

GetSwiftStructureType(node_type) ==
    IF node_type \in {"function_declaration", "initializer_declaration"} THEN "functions"
    ELSE IF node_type \in {"class_declaration", "struct_declaration",
                           "protocol_declaration", "enum_declaration"} THEN "classes"
    ELSE IF node_type \in {"import_declaration"} THEN "imports"
    ELSE IF node_type \in {"comment"} THEN "comments"
    ELSE IF node_type \in {"source_file"} THEN "modules"
    ELSE None

\* ASTChunker._get_structure_type, on node.type
GetStructureType(node_type, ext) ==
    IF ext \in {".py"} THEN GetPythonStructureType(node_type)
    ELSE IF ext \in {".js", ".jsx", ".ts", ".tsx"} THEN GetJavascriptStructureType(node_type)
    ELSE IF ext \in {".java"} THEN GetJavaStructureType(node_type)
    ELSE IF ext \in {".go"} THEN GetGoStructureType(node_type)
    ELSE IF ext \in {".c", ".cpp", ".cc", ".cxx", ".h", ".hpp"}
         THEN GetCStructureType(node_type)
    ELSE IF ext \in {".rs"} THEN GetRustStructureType(node_type)
    ELSE IF ext \in {".rb"} THEN GetRubyStructureType(node_type)
    ELSE IF ext \in {".php"} THEN GetPhpStructureType(node_type)
    ELSE IF ext \in {".swift"} THEN GetSwiftStructureType(node_type)
    ELSE None

-----------------------------------------------------------------------------
(* ASTChunker._extract_structures, _format_chunk, _chunk_with_ast, chunk *)

\* a dict whose 'modules' key is inserted first
StructureKeys_ModulesFirst ==
    <<"modules", "functions", "classes", "interfaces", "enums", "constants",
      "imports", "comments">>

\* the keys of the dict `structures`, in insertion (= iteration) order
StructureKeys ==
    <<"functions", "classes", "modules", "interfaces", "enums", "constants",
      "imports", "comments">>

EmptyStructures == [ k \in { StructureKeys[i] : i \in DOMAIN StructureKeys } |-> <<>> ]

RecursionCap == 10

RECURSIVE Traverse(_, _, _, _, _)
RECURSIVE TraverseChildren(_, _, _, _, _, _)

\* the state of one walk: the dict `structures` the closure appends to, and
\* (history) the nodes on which the body of traverse ran, in call order
EmptyWalk == [structures |-> EmptyStructures, visited |-> <<>>]

\* a traverse(node, depth) without the test on depth
Traverse_NoCap(walk, node, depth, text, ext) ==
    LET structures == walk.structures
        structure_type == GetStructureType(node.type, ext)
        sliced == Slice(text, node.start_byte, node.end_byte)
        recorded ==
            IF structure_type # None /\ structure_type \in DOMAIN structures
               /\ ~IsBlank(sliced)
            THEN [structures EXCEPT ![structure_type] =
                     Append(@, [type |-> node.type,
                                text |-> sliced,
                                start_line |-> node.start_point[1] + 1,
                                end_line |-> node.end_point[1] + 1,
                                start_byte |-> node.start_byte,
                                end_byte |-> node.end_byte])]
            ELSE structures
    IN  TraverseChildren([structures |-> recorded,
                          visited |-> Append(walk.visited, node)],
                         node.children, 1, depth, text, ext)

\* a traverse(node, depth) that does not descend below a node it recorded
\* (the root excepted)
Traverse_StopAtMatch(walk, node, depth, text, ext) ==
    IF depth > RecursionCap THEN walk
    ELSE LET structures == walk.structures
             structure_type == GetStructureType(node.type, ext)
             sliced == Slice(text, node.start_byte, node.end_byte)
             matched == structure_type # None /\ structure_type \in DOMAIN structures
                        /\ ~IsBlank(sliced)
             recorded ==
                 IF matched
                 THEN [structures EXCEPT ![structure_type] =
                          Append(@, [type |-> node.type,
                                     text |-> sliced,
                                     start_line |-> node.start_point[1] + 1,
                                     end_line |-> node.end_point[1] + 1,
                                     start_byte |-> node.start_byte,
                                     end_byte |-> node.end_byte])]
                 ELSE structures
             here == [structures |-> recorded,
                      visited |-> Append(walk.visited, node)]
         IN  IF matched /\ depth > 0 THEN here
             ELSE TraverseChildren(here, node.children, 1, depth, text, ext)

\* traverse(node, depth)
Traverse(walk, node, depth, text, ext) ==
    IF depth > RecursionCap THEN walk
    ELSE LET structures == walk.structures
             structure_type == GetStructureType(node.type, ext)
             sliced == Slice(text, node.start_byte, node.end_byte)
             recorded ==
                 IF structure_type # None /\ structure_type \in DOMAIN structures
                    /\ ~IsBlank(sliced)
                 THEN [structures EXCEPT ![structure_type] =
                          Append(@, [type |-> node.type,
                                     text |-> sliced,
                                     start_line |-> node.start_point[1] + 1,
                                     end_line |-> node.end_point[1] + 1,
                                     start_byte |-> node.start_byte,
                                     end_byte |-> node.end_byte])]
                 ELSE structures
         IN  TraverseChildren([structures |-> recorded,
                               visited |-> Append(walk.visited, node)],
                              node.children, 1, depth, text, ext)

\* a walk that descends into the first child only
TraverseChildren_FirstOnly(walk, children, k, depth, text, ext) ==
    IF k > Len(children) \/ k > 1 THEN walk
    ELSE Traverse(walk, children[k], depth + 1, text, ext)

\* for child in node.children: traverse(child, depth + 1)
TraverseChildren(walk, children, k, depth, text, ext) ==
    IF k > Len(children) THEN walk
    ELSE TraverseChildren(Traverse(walk, children[k], depth + 1, text, ext),
                          children, k + 1, depth, text, ext)

\* traverse(root_node) on a fresh dict
WalkTree(node, text, ext) == Traverse(EmptyWalk, node, 0, text, ext)

\* an _extract_structures that goes on filling the dict of the walk before
ExtractStructures_KeptDict(node, text, ext) ==
    Traverse([structures |-> extracted, visited |-> <<>>], node, 0, text, ext).structures

ExtractStructures(node, text, ext) == WalkTree(node, text, ext).structures

\* str.upper() on the keys of `structures`
Upper(structure_type) ==
    CASE structure_type = "functions" -> "FUNCTIONS"
      [] structure_type = "classes" -> "CLASSES"
      [] structure_type = "modules" -> "MODULES"
      [] structure_type = "interfaces" -> "INTERFACES"
      [] structure_type = "enums" -> "ENUMS"
      [] structure_type = "constants" -> "CONSTANTS"
      [] structure_type = "imports" -> "IMPORTS"
      [] structure_type = "comments" -> "COMMENTS"

Header(structure, structure_type) ==
    "// " \o Upper(structure_type) \o ": Lines " \o ToString(structure.start_line)
          \o "-" \o ToString(structure.end_line)

Footer(structure_type) == "// End of " \o structure_type \o " (AST chunk)"

\* header + code + footer
FormatChunk(structure, structure_type, ext) ==
    (<<Header(structure, structure_type), "\n">> \o structure.text)
        \o <<"\n", Footer(structure_type)>>

RECURSIVE FormatList(_, _, _, _)
FormatList(structures_list, k, structure_type, ext) ==
    IF k > Len(structures_list) THEN <<>>
    ELSE (IF ~IsBlank(structures_list[k].text)
          THEN <<FormatChunk(structures_list[k], structure_type, ext)>>
          ELSE <<>>) \o FormatList(structures_list, k + 1, structure_type, ext)

RECURSIVE FormatAll(_, _, _)
\* for structure_type, structures_list in structures.items(): ...
FormatAll(structures, t, ext) ==
    IF t > Len(StructureKeys) THEN <<>>
    ELSE FormatList(structures[StructureKeys[t]], 1, StructureKeys[t], ext)
            \o FormatAll(structures, t + 1, ext)

\* a _chunk_with_ast that adds the windows of the windower to its chunks
ChunkWithAst_PlusFallback(text, ext, p) ==
    IF p.raises = "parse" THEN [raised |-> TRUE, chunks |-> <<>>, parse_calls |-> 1]
    ELSE IF p.raises = "walk" THEN [raised |-> TRUE, chunks |-> <<>>, parse_calls |-> 1]
    ELSE LET structures == ExtractStructures(p.root, text, ext)
             chunks == FormatAll(structures, 1, ext)
         IN  IF chunks = <<>>
             THEN [raised |-> FALSE, chunks |-> ChunkWithFallback(text, ext),
                   parse_calls |-> 1]
             ELSE IF p.raises = "format"
             THEN [raised |-> TRUE, chunks |-> <<>>, parse_calls |-> 1]
             ELSE [raised |-> FALSE, chunks |-> chunks \o ChunkWithFallback(text, ext),
                   parse_calls |-> 1]

\* [raised, chunks, parse_calls]; p tells what the parser, the walk and the
\* formatter do on this call
ChunkWithAst(text, ext, p) ==
    IF p.raises = "parse" THEN [raised |-> TRUE, chunks |-> <<>>, parse_calls |-> 1]
    ELSE IF p.raises = "walk" THEN [raised |-> TRUE, chunks |-> <<>>, parse_calls |-> 1]
    ELSE LET structures == ExtractStructures(p.root, text, ext)
             chunks == FormatAll(structures, 1, ext)
         IN  IF chunks = <<>>
             THEN [raised |-> FALSE, chunks |-> ChunkWithFallback(text, ext),
                   parse_calls |-> 1]
             ELSE IF p.raises = "format"
             THEN [raised |-> TRUE, chunks |-> <<>>, parse_calls |-> 1]
             ELSE [raised |-> FALSE, chunks |-> chunks, parse_calls |-> 1]

\* chunk without the test for blank content
Chunk_NoBlankGuard(text, ext, ps, p) ==
    IF ext \in DOMAIN ps
    THEN LET r == ChunkWithAst(text, ext, p)
         IN  IF r.raised
             THEN [raised |-> FALSE, chunks |-> ChunkWithFallback(text, ext),
                   parse_calls |-> r.parse_calls]
             ELSE r
    ELSE [raised |-> FALSE, chunks |-> ChunkWithFallback(text, ext), parse_calls |-> 0]

\* chunk without the try/except around _chunk_with_ast
Chunk_NoExcept(text, ext, ps, p) ==
    IF IsBlank(text) THEN [raised |-> FALSE, chunks |-> <<>>, parse_calls |-> 0]
    ELSE IF ext \in DOMAIN ps THEN ChunkWithAst(text, ext, p)
    ELSE [raised |-> FALSE, chunks |-> ChunkWithFallback(text, ext), parse_calls |-> 0]

\* ASTChunker.chunk
Chunk(text, ext, ps, p) ==
    IF IsBlank(text) THEN [raised |-> FALSE, chunks |-> <<>>, parse_calls |-> 0]
    ELSE IF ext \in DOMAIN ps
    THEN LET r == ChunkWithAst(text, ext, p)
         IN  IF r.raised
             THEN [raised |-> FALSE, chunks |-> ChunkWithFallback(text, ext),
                   parse_calls |-> r.parse_calls]
             ELSE r
    ELSE [raised |-> FALSE, chunks |-> ChunkWithFallback(text, ext), parse_calls |-> 0]

-----------------------------------------------------------------------------
(* Inputs *)

\* unit * n
Repeat(unit, n) == [ i \in 1..(n * Len(unit)) |-> unit[((i - 1) % Len(unit)) + 1] ]

RECURSIVE ContentsOf(_)
\* the texts made of at most n runs
ContentsOf(n) ==
    IF n = 0 THEN { <<>> }
    ELSE LET shorter == ContentsOf(n - 1)
         IN  shorter \cup { c \o Repeat(u, k) : c \in shorter, u \in Units, k \in RunLens }

Contents ==
    UNION { [1..n -> Alphabet] : n \in 0..MaxChars } \cup ContentsOf(MaxRuns)

\* the extensions the calls are made with: two with a table entry, one without
Extensions == {".py", ".rs", ".unknownext"}

\* the grammar modules whose initialisation may raise
BrokenChoices == { {}, {"tree_sitter_rust"} }

\* kind of the root node a grammar produces
RootKind(ext) ==
    IF ext = ".py" THEN "module"
    ELSE IF ext \in {".js", ".jsx", ".ts", ".tsx", ".java", ".rb", ".php"} THEN "program"
    ELSE IF ext \in {".c", ".h", ".cpp", ".cc", ".cxx", ".hpp"} THEN "translation_unit"
    ELSE "source_file"

\* kinds of the nodes below the root that the inputs use
ChildKinds(ext) ==
    IF ext = ".py" THEN {"function_definition", "import_statement", "expression_statement"}
    ELSE {"function_item", "impl_item", "use_declaration"}

\* index of the first character that the grammars do not skip as whitespace
LeadingBlank(s) ==
    LET solid == { k \in DOMAIN s : s[k] \notin Whitespace }
    IN  IF solid = {} THEN Len(s)
        ELSE (CHOOSE k \in solid : \A j \in solid : k <= j) - 1

\* the node of kind `type` over the characters i .. j-1 of text
MkNode(text, type, i, j, children) ==
    [type |-> type,
     start_byte |-> ByteOffset(text, i),
     end_byte |-> ByteOffset(text, j),
     start_point |-> <<Row(text, i)>>,
     end_point |-> <<Row(text, j)>>,
     children |-> children]

Cuts == {1, 2}

\* character index where child k of n ends, the first child ending at `cut`
Boundary(text, rs, cut, k, n) ==
    IF k = 0 THEN rs
    ELSE IF k = n THEN Len(text)
    ELSE LET b == Min(cut + k - 1, Len(text)) IN IF b < rs THEN rs ELSE b

\* a root of kind rk starting at character rs, its children of the given kinds
TreeOf(text, rk, rs, cut, kinds) ==
    LET n == Len(kinds)
    IN  MkNode(text, rk, rs, Len(text),
               [k \in 1..n |-> MkNode(text, kinds[k],
                                      Boundary(text, rs, cut, k - 1, n),
                                      Boundary(text, rs, cut, k, n), <<>>)])

\* the trees the parser may return for text: a root and up to MaxChildren
\* children that follow one another in the text
Trees(text, ext) ==
    { TreeOf(text, rk, rs, cut, kinds) :
        rk \in {RootKind(ext), "ERROR"},
        rs \in {0, LeadingBlank(text)},
        cut \in Cuts,
        kinds \in UNION { [1..m -> ChildKinds(ext)] :
                             m \in 0..(IF Len(text) <= MaxChars THEN MaxChildren ELSE 0) } }

MaxDepth == 12

RECURSIVE Nested(_, _, _, _)
\* d nodes one inside the other over the whole text, the innermost of kind
\* `leaf`, the others of kind `inner`
Nested(text, inner, leaf, d) ==
    MkNode(text, IF d = 1 THEN leaf ELSE inner, 0, Len(text),
           IF d = 1 THEN <<>> ELSE <<Nested(text, inner, leaf, d - 1)>>)

\* the trees with one path of up to MaxDepth nodes below the root
DeepTrees(text, ext) ==
    { MkNode(text, RootKind(ext), 0, Len(text), <<Nested(text, inner, leaf, d)>>) :
        inner \in ChildKinds(ext), leaf \in ChildKinds(ext), d \in 1..MaxDepth }

NoTree == [type |-> "", start_byte |-> 0, end_byte |-> 0, start_point |-> <<0>>,
           end_point |-> <<0>>, children |-> <<>>]

\* what a call to the parser and the later stages can do
ParseOutcomes(text, ext) ==
    { [raises |-> f, root |-> NoTree] : f \in {"parse", "walk", "format"} }
        \cup { [raises |-> "none", root |-> t] : t \in Trees(text, ext) }

-----------------------------------------------------------------------------
(* The state machine *)

NoClass == [type |-> "", ext |-> "", category |-> ""]

\* a service that is not part of the run
Unused == "unused"

\* the services around the chunker are not part of the run
ServicesIdle ==
    /\ repos = Unused
    /\ fixed = Unused
    /\ loader = Unused
    /\ store = Unused
    /\ cache = Unused
    /\ stream = Unused

\* a call that has not started: no walk, no stage, no Document, no earlier call
Idle ==
    /\ ServicesIdle
    /\ pc = "ready"
    /\ result = <<>>
    /\ raised = FALSE
    /\ parse_calls = 0
    /\ classified = NoClass
    /\ extracted = EmptyStructures
    /\ visited = <<>>
    /\ path = <<>>
    /\ docs = <<>>
    /\ calls = <<>>

\* the process after ASTChunker() has run once
Constructed ==
    /\ parsers = InitParsers(failing)
    /\ grammar_inits = GrammarInits(failing)
    /\ load_warnings = LoadWarnings(failing)
    /\ chunkers = 1

Init ==
    /\ failing \in BrokenChoices
    /\ Constructed
    /\ content \in Contents
    /\ file_extension \in Extensions
    /\ parse \in IF file_extension \in DOMAIN parsers /\ ~IsBlank(content)
                  THEN ParseOutcomes(content, file_extension)
                  ELSE { [raises |-> "none", root |-> NoTree] }
    /\ Idle

\* chunks = ast_chunker.chunk(content, ext)
CallChunk ==
    /\ UNCHANGED serviceVars
    /\ pc = "ready"
    /\ LET r == Chunk(content, file_extension, parsers, parse)
       IN  /\ result' = r.chunks
           /\ raised' = r.raised
           /\ parse_calls' = r.parse_calls
    /\ pc' = "chunk"
    /\ UNCHANGED <<parsers, content, file_extension, parse, classified>>
    /\ UNCHANGED <<walkVars, processVars, pipelineVars>>

\* the fallback windower called on its own
CallFallback ==
    /\ UNCHANGED serviceVars
    /\ pc = "ready"
    /\ result' = ChunkWithFallback(content, file_extension)
    /\ pc' = "fallback"
    /\ UNCHANGED <<parsers, content, file_extension, parse, raised, parse_calls,
                   classified>>
    /\ UNCHANGED <<walkVars, processVars, pipelineVars>>

\* the classifier called on a node of the tree
CallClassify ==
    /\ UNCHANGED serviceVars
    /\ pc = "ready"
    /\ parse.raises = "none"
    /\ \E node \in {parse.root} \cup { parse.root.children[k] : k \in DOMAIN parse.root.children } :
          /\ node.type # ""
          /\ classified' = [type |-> node.type, ext |-> file_extension,
                            category |-> GetStructureType(node.type, file_extension)]
    /\ pc' = "classify"
    /\ UNCHANGED <<parsers, content, file_extension, parse, result, raised, parse_calls>>
    /\ UNCHANGED <<walkVars, processVars, pipelineVars>>

Next == CallChunk \/ CallFallback \/ CallClassify

Spec == Init /\ [][Next]_vars

-----------------------------------------------------------------------------
(* The tree walker on its own, on flat and on deep trees *)

\* the non-blank texts of at most MaxChars characters
ShortContents ==
    { c \in UNION { [1..n -> Alphabet] : n \in 1..MaxChars } : ~IsBlank(c) }

InitWalk ==
    /\ failing = {}
    /\ Constructed
    /\ content \in ShortContents
    /\ file_extension \in {".py", ".rs"}
    /\ parse \in { [raises |-> "none", root |-> t] :
                     t \in Trees(content, file_extension)
                              \cup DeepTrees(content, file_extension) }
    /\ Idle

\* structures = self._extract_structures(tree.root_node, content, file_extension)
CallExtract ==
    /\ UNCHANGED serviceVars
    /\ pc = "ready"
    /\ LET walk == WalkTree(parse.root, content, file_extension)
       IN  /\ extracted' = walk.structures
           /\ visited' = walk.visited
    /\ pc' = "extract"
    /\ UNCHANGED <<parsers, content, file_extension, parse, result, raised,
                   parse_calls, classified, processVars, pipelineVars>>

NextWalk == CallExtract

SpecWalk == InitWalk /\ [][NextWalk]_vars

-----------------------------------------------------------------------------
(* The process: ingestion calls that each construct an ASTChunker *)

MaxFailing == 2
MaxChunkers == 2

\* the grammar modules of language_configs
Modules == { language_configs[i][2] : i \in DOMAIN language_configs }

\* the extensions of language_configs
ConfiguredExtensions == { language_configs[i][1] : i \in DOMAIN language_configs }

\* the module language_configs gives for a configured extension
ModuleOf(ext) ==
    language_configs[CHOOSE i \in DOMAIN language_configs : language_configs[i][1] = ext][2]

\* the files the ingestion calls read
ProcessContents == { <<"x">>, <<"é", "\n", "x">> }

InitProcess ==
    /\ failing \in { b \in SUBSET Modules : Cardinality(b) <= MaxFailing }
    /\ parsers = << >>
    /\ grammar_inits = [ g \in Grammars |-> 0 ]
    /\ load_warnings = [ g \in Grammars |-> 0 ]
    /\ chunkers = 0
    /\ content \in ProcessContents
    /\ file_extension \in ConfiguredExtensions \cup {".unknownext"}
    /\ parse \in IF file_extension \in ConfiguredExtensions
                     /\ ModuleOf(file_extension) \notin failing
                  THEN { [raises |-> "parse", root |-> NoTree],
                         [raises |-> "none",
                          root |-> TreeOf(content, RootKind(file_extension), 0, 1, <<>>)] }
                  ELSE { [raises |-> "none", root |-> NoTree] }
    /\ ServicesIdle
    /\ pc = "start"
    /\ result = <<>>
    /\ raised = FALSE
    /\ parse_calls = 0
    /\ classified = NoClass
    /\ extracted = EmptyStructures
    /\ visited = <<>>
    /\ path = <<>>
    /\ docs = <<>>
    /\ calls = <<>>

\* ast_chunker = ASTChunker(), made by every ingestion call
NewChunker ==
    /\ UNCHANGED serviceVars
    /\ pc \in {"start", "chunk"}
    /\ chunkers < MaxChunkers
    /\ parsers' = InitParsers(failing)
    /\ grammar_inits' = [ g \in Grammars |-> grammar_inits[g] + GrammarInits(failing)[g] ]
    /\ load_warnings' = [ g \in Grammars |-> load_warnings[g] + LoadWarnings(failing)[g] ]
    /\ chunkers' = chunkers + 1
    /\ pc' = "ready"
    /\ result' = <<>>
    /\ raised' = FALSE
    /\ parse_calls' = 0
    /\ UNCHANGED <<failing, content, file_extension, parse, classified, walkVars,
                   pipelineVars>>

NextProcess == NewChunker \/ CallChunk

SpecProcess == InitProcess /\ [][NextProcess]_vars

-----------------------------------------------------------------------------
(* One extraction, stage by stage *)

InitStages ==
    /\ failing \in BrokenChoices
    /\ Constructed
    /\ content \in UNION { [1..n -> Alphabet] : n \in 0..MaxChars }
    /\ file_extension \in Extensions
    /\ parse \in IF file_extension \in DOMAIN parsers /\ ~IsBlank(content)
                  THEN ParseOutcomes(content, file_extension)
                  ELSE { [raises |-> "none", root |-> NoTree] }
    /\ Idle

\* the extraction ends in the windower
ToFallback ==
    /\ pc' = "Fallback"
    /\ path' = Append(path, "Fallback")
    /\ result' = ChunkWithFallback(content, file_extension)

\* chunk is entered: a blank content returns [] at once
EnterChunk ==
    /\ UNCHANGED serviceVars
    /\ pc = "ready"
    /\ IF IsBlank(content)
       THEN pc' = "Empty" /\ path' = path
       ELSE pc' = "Unresolved" /\ path' = <<"Unresolved">>
    /\ UNCHANGED <<parsers, content, file_extension, parse, result, raised,
                   parse_calls, classified, walkVars, processVars, docs, calls>>

\* if file_extension in self.parsers
ResolveStep ==
    /\ UNCHANGED serviceVars
    /\ pc = "Unresolved"
    /\ IF file_extension \in DOMAIN parsers
       THEN pc' = "Resolved" /\ path' = Append(path, "Resolved") /\ result' = result
       ELSE ToFallback
    /\ UNCHANGED <<parsers, content, file_extension, parse, raised,
                   parse_calls, classified, walkVars, processVars, docs, calls>>

\* a parse step whose exception leaves chunk
ParseStep_NoExcept ==
    /\ UNCHANGED serviceVars
    /\ pc = "Resolved"
    /\ parse_calls' = parse_calls + 1
    /\ IF parse.raises = "parse"
       THEN pc' = "Raised" /\ path' = Append(path, "Raised") /\ result' = result
                           /\ raised' = TRUE
       ELSE pc' = "Parsed" /\ path' = Append(path, "Parsed") /\ result' = result
                           /\ raised' = raised
    /\ UNCHANGED <<parsers, content, file_extension, parse,
                   classified, walkVars, processVars, docs, calls>>

\* tree = parser.parse(bytes(content, "utf8")), inside the try of chunk
ParseStep ==
    /\ UNCHANGED serviceVars
    /\ pc = "Resolved"
    /\ parse_calls' = parse_calls + 1
    /\ IF parse.raises = "parse"
       THEN ToFallback
       ELSE pc' = "Parsed" /\ path' = Append(path, "Parsed") /\ result' = result
    /\ UNCHANGED <<parsers, content, file_extension, parse, raised,
                   classified, walkVars, processVars, docs, calls>>

\* structures = self._extract_structures(...), inside the try of chunk
WalkStep ==
    /\ UNCHANGED serviceVars
    /\ pc = "Parsed"
    /\ IF parse.raises = "walk"
       THEN ToFallback /\ UNCHANGED walkVars
       ELSE LET walk == WalkTree(parse.root, content, file_extension)
            IN  /\ pc' = "Classified"
                /\ path' = Append(path, "Classified")
                /\ result' = result
                /\ extracted' = walk.structures
                /\ visited' = walk.visited
    /\ UNCHANGED <<parsers, content, file_extension, parse, raised,
                   parse_calls, classified, processVars, docs, calls>>

\* the loops over structures, and `if not chunks`, inside the try of chunk
FormatStep ==
    /\ UNCHANGED serviceVars
    /\ pc = "Classified"
    /\ LET chunks == FormatAll(extracted, 1, file_extension)
       IN  IF chunks = <<>> \/ parse.raises = "format"
           THEN ToFallback
           ELSE pc' = "Chunked" /\ path' = Append(path, "Chunked") /\ result' = chunks
    /\ UNCHANGED <<parsers, content, file_extension, parse, raised,
                   parse_calls, classified, walkVars, processVars, docs, calls>>

NextStages == EnterChunk \/ ResolveStep \/ ParseStep \/ WalkStep \/ FormatStep

SpecStages == InitStages /\ [][NextStages]_vars

-----------------------------------------------------------------------------
(* The two ingestion loops: Documents built from the chunks of one file *)

\* Documents with chunk_index counted from 1
DocsOf_OneBased(chunks, chunk_type) ==
    [ i \in DOMAIN chunks |->
        [page_content |-> chunks[i], chunk_type |-> chunk_type,
         chunk_index |-> i, total_chunks |-> Len(chunks)] ]

\* for i, chunk in enumerate(chunks): docs.append(Document(page_content=chunk,
\* metadata={..., 'chunk_type', 'chunk_index': i, 'total_chunks': len(chunks)}))
DocsOf(chunks, chunk_type) ==
    [ i \in DOMAIN chunks |->
        [page_content |-> chunks[i], chunk_type |-> chunk_type,
         chunk_index |-> i - 1, total_chunks |-> Len(chunks)] ]

\* what fixed_chunker.chunk and semantic_chunker.chunk may return: any list
OtherChunkLists == { <<>>, <<"p">>, <<"p", "q">> }

\* the trees of the files the loops read: a root and its children
PipelineTrees(text, ext) ==
    { TreeOf(text, RootKind(ext), 0, 1, kinds) :
        kinds \in UNION { [1..m -> ChildKinds(ext)] : m \in 0..MaxChildren } }

\* the largest len(content) that load_codebase_as_chunked_docs lets through
MaxFileChars == 500000

\* one element that stands for a run of MaxFileChars characters 'x'
FullRun == "x * MaxFileChars"

\* len(s), a FullRun counting for the characters it stands for
StrLen(s) == Len(s) + (MaxFileChars - 1) * Cardinality({ k \in DOMAIN s : s[k] = FullRun })

\* files of MaxFileChars and of MaxFileChars + 1 characters
LargeContents == { <<FullRun>>, <<FullRun, "x">> }

InitPipeline ==
    /\ failing \in BrokenChoices
    /\ Constructed
    /\ content \in UNION { [1..n -> Alphabet] : n \in 0..MaxChars } \cup LargeContents
    /\ file_extension \in Extensions
    /\ parse \in IF file_extension \in DOMAIN parsers /\ ~IsBlank(content)
                  THEN { [raises |-> "parse", root |-> NoTree] }
                           \cup { [raises |-> "none", root |-> t] :
                                    t \in IF content \in LargeContents THEN {}
                                          ELSE PipelineTrees(content, file_extension) }
                  ELSE { [raises |-> "none", root |-> NoTree] }
    /\ Idle

\* load_codebase_as_chunked_docs, the body of the loop for one file
LoadCodebaseFile ==
    /\ UNCHANGED serviceVars
    /\ pc = "ready"
    /\ IF IsBlank(content) \/ StrLen(content) > MaxFileChars
       THEN pc' = "skipped" /\ UNCHANGED <<result, parse_calls, docs>>
       ELSE LET r == Chunk(content, file_extension, parsers, parse)
            IN  /\ result' = r.chunks
                /\ parse_calls' = r.parse_calls
                /\ docs' = docs \o DocsOf(r.chunks, "ast")
                /\ pc' = "loaded"
    /\ UNCHANGED <<parsers, content, file_extension, parse, raised, classified,
                   walkVars, processVars, path, calls>>

\* index_repository, the body of the loop for one file; the semantic chunker
\* may raise, which ends the work on the file
IndexRepositoryFile ==
    /\ UNCHANGED serviceVars
    /\ pc = "ready"
    /\ IF IsBlank(content)
       THEN pc' = "skipped" /\ UNCHANGED <<result, parse_calls, docs>>
       ELSE \E fixed_chunks \in OtherChunkLists, semantic_raises \in BOOLEAN,
               semantic_chunks \in OtherChunkLists :
               IF semantic_raises
               THEN /\ semantic_chunks = <<>>
                    /\ docs' = docs \o DocsOf(fixed_chunks, "fixed")
                    /\ pc' = "error"
                    /\ UNCHANGED <<result, parse_calls>>
               ELSE LET r == Chunk(content, file_extension, parsers, parse)
                    IN  /\ result' = r.chunks
                        /\ parse_calls' = r.parse_calls
                        /\ docs' = ((docs \o DocsOf(fixed_chunks, "fixed"))
                                       \o DocsOf(semantic_chunks, "semantic"))
                                       \o DocsOf(r.chunks, "ast")
                        /\ pc' = "indexed"
    /\ UNCHANGED <<parsers, content, file_extension, parse, raised, classified,
                   walkVars, processVars, path, calls>>

NextPipeline == LoadCodebaseFile \/ IndexRepositoryFile

SpecPipeline == InitPipeline /\ [][NextPipeline]_vars

-----------------------------------------------------------------------------
(* Several calls of chunk on one ASTChunker *)

MaxCalls == 3

\* other files that are chunked before and between the calls for the file
OtherFiles ==
    { [content |-> <<"x", "x">>, file_extension |-> ".py",
       parse |-> [raises |-> "none",
                  root |-> TreeOf(<<"x", "x">>, "module", 0, 1, <<"function_definition">>)]],
      [content |-> <<"x", "\n">>, file_extension |-> ".unknownext",
       parse |-> [raises |-> "none", root |-> NoTree]],
      [content |-> <<" ">>, file_extension |-> ".rs",
       parse |-> [raises |-> "none", root |-> NoTree]] }

InitCalls ==
    /\ failing \in BrokenChoices
    /\ Constructed
    /\ content \in ProcessContents
    /\ file_extension \in Extensions
    /\ parse \in IF file_extension \in DOMAIN parsers
                  THEN { [raises |-> "parse", root |-> NoTree] }
                           \cup { [raises |-> "none", root |-> t] :
                                    t \in PipelineTrees(content, file_extension) }
                  ELSE { [raises |-> "none", root |-> NoTree] }
    /\ Idle

\* the dict of the last walk after chunk(text, ext): a call that does not
\* reach _extract_structures leaves `before`
StructuresAfter(text, ext, ps, p, before) ==
    IF ~IsBlank(text) /\ ext \in DOMAIN ps /\ p.raises \notin {"parse", "walk"}
    THEN ExtractStructures(p.root, text, ext)
    ELSE before

\* one call of chunk, entered in the history of calls
ChunkFile(text, ext, p) ==
    /\ UNCHANGED serviceVars
    /\ Len(calls) < MaxCalls
    /\ LET r == Chunk(text, ext, parsers, p)
       IN  /\ result' = r.chunks
           /\ raised' = r.raised
           /\ parse_calls' = r.parse_calls
           /\ calls' = Append(calls, [content |-> text, file_extension |-> ext,
                                      chunks |-> r.chunks])
    /\ extracted' = StructuresAfter(text, ext, parsers, p, extracted)
    /\ pc' = "chunk"
    /\ UNCHANGED <<parsers, content, file_extension, parse, classified, visited,
                   processVars, path, docs>>

\* ast_chunker.chunk(content, ext) for the file
ChunkThisFile == ChunkFile(content, file_extension, parse)

\* ast_chunker.chunk(content, ext) for another file of the repository
ChunkOtherFile == \E f \in OtherFiles : ChunkFile(f.content, f.file_extension, f.parse)

NextCalls == ChunkThisFile \/ ChunkOtherFile

SpecCalls == InitCalls /\ [][NextCalls]_vars

-----------------------------------------------------------------------------
(* repo_manager.clone_repo *)

\* the variables of the chunker and of the ingestion loops
chunkerVars == <<parsers, content, file_extension, parse, pc, result, raised,
                 parse_calls, classified, walkVars, processVars, pipelineVars>>

\* the chunker is not part of the run
ChunkerUnused ==
    /\ failing = {}
    /\ parsers = << >>
    /\ grammar_inits = [ g \in Grammars |-> 0 ]
    /\ load_warnings = [ g \in Grammars |-> 0 ]
    /\ chunkers = 0
    /\ content = <<>>
    /\ file_extension = ""
    /\ parse = [raises |-> "none", root |-> NoTree]
    /\ pc = "ready"
    /\ result = <<>>
    /\ raised = FALSE
    /\ parse_calls = 0
    /\ classified = NoClass
    /\ extracted = EmptyStructures
    /\ visited = <<>>
    /\ path = <<>>
    /\ docs = <<>>
    /\ calls = <<>>

MaxCloneCalls == 3

\* the URLs the calls are made with
Urls == { "https://github.com/a/b", "https://github.com/a/c", "https://github.com/d/e" }

\* hashlib.sha256(github_url.encode("utf-8")).hexdigest()[:20], tabulated for
\* the URLs of the calls
GetRepoId(github_url) ==
    IF github_url = "https://github.com/a/b" THEN "426415da6467c87a94a5"
    ELSE IF github_url = "https://github.com/a/c" THEN "4f3a8540a38b23934ab5"
    ELSE "eb0de84be3b8a7a93f1c"

\* what the GitHub API and git clone do for one call: the status code of the
\* request, and how subprocess.run ends
CloneOutcomes ==
    { [status_code |-> 404, git |-> "not run"],
      [status_code |-> 401, git |-> "not run"],
      [status_code |-> 200, git |-> "ok"],
      [status_code |-> 200, git |-> "Authentication failed"],
      [status_code |-> 200, git |-> "CalledProcessError"] }

InitRepos ==
    /\ ChunkerUnused
    /\ repos = [dirs |-> {}, log |-> <<>>]
    /\ fixed = Unused
    /\ loader = Unused
    /\ store = Unused
    /\ cache = Unused
    /\ stream = Unused

\* clone_repo(github_url, token); the entry of the log tells how the call ended
CloneRepo ==
    /\ Len(repos.log) < MaxCloneCalls
    /\ \E github_url \in Urls, outcome \in CloneOutcomes :
          LET repo_id == GetRepoId(github_url)
              entry(branch, ended, returned) ==
                  [github_url |-> github_url, branch |-> branch, ended |-> ended,
                   returned |-> returned]
          IN  IF repo_id \notin repos.dirs
              THEN repos' =
                     [dirs |-> repos.dirs \cup {repo_id},
                      log |-> Append(repos.log,
                                IF outcome.status_code \in {404, 401}
                                THEN entry("clone", "raised before git clone", "")
                                ELSE IF outcome.git = "ok"
                                THEN entry("clone", "returned", repo_id)
                                ELSE entry("clone", "raised by git clone", ""))]
              ELSE repos' = [repos EXCEPT !.log =
                                Append(@, entry("already cloned", "returned", ""))]
    /\ UNCHANGED <<chunkerVars, fixed, loader, store, cache, stream>>

NextRepos == CloneRepo

SpecRepos == InitRepos /\ [][NextRepos]_vars

-----------------------------------------------------------------------------
(* FixedSizeChunker.chunk, one pass of its loop at a time *)

MaxTextLen == 6
MaxChunkSize == 4
MaxIterations == 8

\* chunk.rfind('\n'): the last index of a newline, -1 when there is none
RFindNewline(chunk) ==
    LET at == { k \in DOMAIN chunk : chunk[k] = "\n" }
    IN  IF at = {} THEN -1 ELSE (CHOOSE k \in at : \A j \in at : j <= k) - 1

\* a pass that cuts the chunk back to its last newline but keeps end
FixedWindow_EndNotCutBack(text, start, chunk_size) ==
    LET end == start + chunk_size
        chunk == Slice(text, start, end)
        last_newline == RFindNewline(chunk)
    IN  IF end < Len(text) /\ last_newline >= 0 /\ last_newline > chunk_size \div 2
        THEN [chunk |-> Slice(chunk, 0, last_newline), end |-> end]
        ELSE [chunk |-> chunk, end |-> end]

\* chunk and end of one pass of the while loop that begins at start
FixedWindow(text, start, chunk_size) ==
    LET end == start + chunk_size
        chunk == Slice(text, start, end)
        last_newline == RFindNewline(chunk)
    IN  IF end < Len(text) /\ last_newline >= 0 /\ last_newline > chunk_size \div 2
        THEN [chunk |-> Slice(chunk, 0, last_newline), end |-> start + last_newline]
        ELSE [chunk |-> chunk, end |-> end]

InitFixed ==
    /\ ChunkerUnused
    /\ \E text \in UNION { [1..n -> {"a", "\n"}] : n \in 0..MaxTextLen },
          chunk_size \in 1..MaxChunkSize :
          \E overlap \in 0..(chunk_size - 1) :
              fixed = [chunk_size |-> chunk_size, overlap |-> overlap, text |-> text,
                       at |-> "call", start |-> 0, chunks |-> <<>>, starts |-> <<>>]
    /\ repos = Unused
    /\ loader = Unused
    /\ store = Unused
    /\ cache = Unused
    /\ stream = Unused

\* if not text: return []; else chunks = [], start = 0
FixedEnter ==
    /\ fixed.at = "call"
    /\ fixed' = [fixed EXCEPT !.at = IF fixed.text = <<>> THEN "returned" ELSE "loop"]
    /\ UNCHANGED <<chunkerVars, repos, loader, store, cache, stream>>

\* one pass of `while start < text_length`; starts is the history of start
FixedPass ==
    /\ fixed.at = "loop"
    /\ fixed.start < Len(fixed.text)
    /\ Len(fixed.chunks) < MaxIterations
    /\ LET w == FixedWindow(fixed.text, fixed.start, fixed.chunk_size)
       IN  fixed' = [fixed EXCEPT
                       !.chunks = Append(@, w.chunk),
                       !.starts = Append(@, fixed.start),
                       !.start = IF w.end < Len(fixed.text) THEN w.end - fixed.overlap
                                 ELSE Len(fixed.text)]
    /\ UNCHANGED <<chunkerVars, repos, loader, store, cache, stream>>

\* the loop test fails: return chunks
FixedReturn ==
    /\ fixed.at = "loop"
    /\ ~(fixed.start < Len(fixed.text))
    /\ fixed' = [fixed EXCEPT !.at = "returned"]
    /\ UNCHANGED <<chunkerVars, repos, loader, store, cache, stream>>

NextFixed == FixedEnter \/ FixedPass \/ FixedReturn

SpecFixed == InitFixed /\ [][NextFixed]_vars

-----------------------------------------------------------------------------
(* load_codebase_as_chunked_docs, file after file *)

MaxFiles == 2

\* supported_extensions, as far as the files below need it
SupportedExtensions == {".py", ".rs", ".md"}

\* the files a repository may hold: name, extension, what reading gives, what
\* the parser does, and after how many Documents an exception is raised
\* (-1: none)
LoaderFiles ==
    LET file(hidden, ext, read, text, p, raise_after) ==
            [hidden |-> hidden, file_extension |-> ext, read |-> read, content |-> text,
             parse |-> p, raise_after |-> raise_after]
        none == [raises |-> "none", root |-> NoTree]
        tree == [raises |-> "none",
                 root |-> TreeOf(<<"x", "x">>, "module", 0, 1, <<"function_definition">>)]
    IN  { file(TRUE, ".py", "ok", <<"x">>, none, -1),
          file(FALSE, ".unknownext", "ok", <<"x">>, none, -1),
          file(FALSE, ".py", "OSError", <<>>, none, -1),
          file(FALSE, ".rs", "ok", <<" ", "\n">>, none, -1),
          file(FALSE, ".md", "ok", <<FullRun, "x">>, none, -1),
          file(FALSE, ".md", "ok", <<"x", "\n">>, none, -1),
          file(FALSE, ".py", "ok", <<"x", "x">>, tree, -1),
          file(FALSE, ".py", "ok", <<"x", "x">>, tree, 0),
          file(FALSE, ".py", "ok", <<"x", "x">>, tree, 1) }

InitLoader ==
    /\ failing = {}
    /\ Constructed
    /\ content = <<>>
    /\ file_extension = ""
    /\ parse = [raises |-> "none", root |-> NoTree]
    /\ pc = "ready"
    /\ result = <<>>
    /\ raised = FALSE
    /\ parse_calls = 0
    /\ classified = NoClass
    /\ extracted = EmptyStructures
    /\ visited = <<>>
    /\ path = <<>>
    /\ docs = <<>>
    /\ calls = <<>>
    /\ \E files \in UNION { [1..n -> LoaderFiles] : n \in 0..MaxFiles } :
          loader = [files |-> files, next |-> 1, at |-> "loop", docs |-> <<>>,
                    total_files |-> 0, processed_files |-> 0, skipped_files |-> 0,
                    total_ast_chunks |-> 0]
    /\ repos = Unused
    /\ fixed = Unused
    /\ store = Unused
    /\ cache = Unused
    /\ stream = Unused

\* a loop body whose `except Exception` does not count the file
LoaderBody_ErrorNotCounted(l, f) ==
    LET found == [l EXCEPT !.total_files = @ + 1, !.next = @ + 1]
        skipped == [found EXCEPT !.skipped_files = @ + 1]
    IN  IF f.hidden \/ f.file_extension \notin SupportedExtensions THEN skipped
        ELSE IF f.read # "ok" THEN skipped
        ELSE IF IsBlank(f.content) \/ StrLen(f.content) > MaxFileChars THEN skipped
        ELSE LET ast_chunks == Chunk(f.content, f.file_extension, parsers, f.parse).chunks
                 made == IF f.raise_after < 0 THEN Len(ast_chunks)
                         ELSE Min(f.raise_after, Len(ast_chunks))
                 appended == [found EXCEPT
                                !.docs = @ \o SubSeq(DocsOf(ast_chunks, "ast"), 1, made),
                                !.total_ast_chunks = @ + made]
             IN  IF f.raise_after >= 0
                 THEN appended
                 ELSE [appended EXCEPT !.processed_files = @ + 1]

\* the counters and docs after the body of the loop has run for file f
LoaderBody(l, f) ==
    LET found == [l EXCEPT !.total_files = @ + 1, !.next = @ + 1]
        skipped == [found EXCEPT !.skipped_files = @ + 1]
    IN  IF f.hidden \/ f.file_extension \notin SupportedExtensions THEN skipped
        ELSE IF f.read # "ok" THEN skipped
        ELSE IF IsBlank(f.content) \/ StrLen(f.content) > MaxFileChars THEN skipped
        ELSE LET ast_chunks == Chunk(f.content, f.file_extension, parsers, f.parse).chunks
                 made == IF f.raise_after < 0 THEN Len(ast_chunks)
                         ELSE Min(f.raise_after, Len(ast_chunks))
                 appended == [found EXCEPT
                                !.docs = @ \o SubSeq(DocsOf(ast_chunks, "ast"), 1, made),
                                !.total_ast_chunks = @ + made]
             IN  IF f.raise_after >= 0
                 THEN [appended EXCEPT !.skipped_files = @ + 1]
                 ELSE [appended EXCEPT !.processed_files = @ + 1]

\* for filename in files: one pass
LoaderFile ==
    /\ loader.at = "loop"
    /\ loader.next <= Len(loader.files)
    /\ loader' = LoaderBody(loader, loader.files[loader.next])
    /\ UNCHANGED <<chunkerVars, repos, fixed, store, cache, stream>>

\* the walk is over: return docs
LoaderReturn ==
    /\ loader.at = "loop"
    /\ loader.next > Len(loader.files)
    /\ loader' = [loader EXCEPT !.at = "returned"]
    /\ UNCHANGED <<chunkerVars, repos, fixed, store, cache, stream>>

NextLoader == LoaderFile \/ LoaderReturn

SpecLoader == InitLoader /\ [][NextLoader]_vars

-----------------------------------------------------------------------------
(* PineconeVectorStore.add_documents *)

batch_size == 100

\* len(documents) of the calls
DocumentCounts == {0, 1, 2, 99, 100, 101, 199, 200, 201}

\* the documents whose embedding raises: none, the first, the last, both, all
EmbeddingFailures(n) == { {}, {1} \cap (1..n), {n} \cap (1..n), {1, n} \cap (1..n), 1..n }

\* vectors after the embedding loop: the idx of every document that was
\* embedded, in input order
Embedded(n, bad) ==
    LET good(idx) == idx \notin bad IN SelectSeq([ i \in 1..n |-> i ], good)

InitStore ==
    /\ ChunkerUnused
    /\ \E n \in DocumentCounts : \E bad \in EmbeddingFailures(n) :
          store = [documents |-> n, bad |-> bad, at |-> "call", vectors |-> <<>>,
                   i |-> 0, upserted |-> <<>>, returned |-> [success |-> FALSE, count |-> 0]]
    /\ repos = Unused
    /\ fixed = Unused
    /\ loader = Unused
    /\ cache = Unused
    /\ stream = Unused

\* up to the upload: no documents, the embedding loop, no vectors
StoreEmbed ==
    /\ store.at = "call"
    /\ LET vectors == Embedded(store.documents, store.bad)
       IN  store' = IF store.documents = 0 \/ vectors = <<>>
                    THEN [store EXCEPT !.at = "returned",
                                       !.returned = [success |-> FALSE, count |-> 0]]
                    ELSE [store EXCEPT !.at = "upload", !.vectors = vectors, !.i = 0]
    /\ UNCHANGED <<chunkerVars, repos, fixed, loader, cache, stream>>

\* one pass of `for i in range(0, len(vectors), batch_size)`: the upsert of
\* the batch succeeds, or raises into `except Exception`
StoreUpsert ==
    /\ store.at = "upload"
    /\ store.i < Len(store.vectors)
    /\ \E upsert_raises \in BOOLEAN :
          LET batch == SubSeq(store.vectors, store.i + 1,
                              Min(store.i + batch_size, Len(store.vectors)))
          IN  store' = IF upsert_raises
                       THEN [store EXCEPT !.at = "returned",
                                          !.returned = [success |-> FALSE, count |-> 0]]
                       ELSE [store EXCEPT !.upserted = Append(@, batch),
                                          !.i = @ + batch_size]
    /\ UNCHANGED <<chunkerVars, repos, fixed, loader, cache, stream>>

\* after the loop: the statistics (_get_index_stats catches what it raises),
\* then return with count len(vectors)
StoreReturn ==
    /\ store.at = "upload"
    /\ ~(store.i < Len(store.vectors))
    /\ store' = [store EXCEPT
                    !.at = "returned",
                    !.returned = [success |-> TRUE, count |-> Len(store.vectors)]]
    /\ UNCHANGED <<chunkerVars, repos, fixed, loader, cache, stream>>

NextStore == StoreEmbed \/ StoreUpsert \/ StoreReturn

SpecStore == InitStore /\ [][NextStore]_vars

-----------------------------------------------------------------------------
(* SemanticQueryCache.add_query *)

max_cache_size == 1000
MaxAdds == 3

\* list.sort(key=lambda x: x.timestamp): ascending, and stable (entries with
\* equal timestamps keep their order)
RECURSIVE SortByTimestamp(_)
SortByTimestamp(entries) ==
    IF Len(entries) <= 1 THEN entries
    ELSE LET pivot == entries[(Len(entries) + 1) \div 2].timestamp
             earlier(e) == e.timestamp < pivot
             same(e) == e.timestamp = pivot
             later(e) == e.timestamp > pivot
         IN  SortByTimestamp(SelectSeq(entries, earlier))
                \o SelectSeq(entries, same)
                \o SortByTimestamp(SelectSeq(entries, later))

\* self.cache_entries after add_query has appended entry
CacheAfterAdd(entries, entry) ==
    LET appended == Append(entries, entry)
    IN  IF Len(appended) > max_cache_size
        THEN LET sorted == SortByTimestamp(appended)
             IN  SubSeq(sorted, Len(sorted) - max_cache_size + 1, Len(sorted))
        ELSE appended

\* a cache that earlier calls have filled with n entries, one per tick
Filled(n) == [ i \in 1..n |-> [query |-> i, timestamp |-> i] ]

InitCache ==
    /\ ChunkerUnused
    /\ \E n \in {0, max_cache_size - 2, max_cache_size - 1, max_cache_size} :
          cache = [entries |-> Filled(n), adds |-> 0, before |-> <<>>,
                   added |-> [query |-> 0, timestamp |-> 0]]
    /\ repos = Unused
    /\ fixed = Unused
    /\ loader = Unused
    /\ store = Unused
    /\ stream = Unused

\* what time.time() may return for a cache whose newest timestamp is t: a
\* later time, the same tick, or an earlier time after the clock was set back
Clock(entries) ==
    LET newest == IF entries = <<>> THEN 0
                  ELSE CHOOSE t \in { entries[i].timestamp : i \in DOMAIN entries } :
                          \A i \in DOMAIN entries : entries[i].timestamp <= t
    IN  { newest + 1, newest, 0 }

\* add_query(query, answer, relevant_files)
AddQuery ==
    /\ cache.adds < MaxAdds
    /\ \E now \in Clock(cache.entries) :
          LET entry == [query |-> max_cache_size + cache.adds + 1, timestamp |-> now]
          IN  cache' = [entries |-> CacheAfterAdd(cache.entries, entry),
                        adds |-> cache.adds + 1,
                        before |-> cache.entries,
                        added |-> entry]
    /\ UNCHANGED <<chunkerVars, repos, fixed, loader, store, stream>>

NextCache == AddQuery

SpecCache == InitCache /\ [][NextCache]_vars

-----------------------------------------------------------------------------
(* handle_query_stream under ChatStreamingService.stream_chat_response *)

MaxStreamChunks == 6

\* the request of query_codebase that starts a stream names a socket
SocketIds == {"sid-1"}

InitStream ==
    /\ ChunkerUnused
    /\ \E socket_id \in SocketIds :
          stream = [socket_id |-> socket_id, at |-> "start", calls |-> <<>>, passes |-> 0]
    /\ repos = Unused
    /\ fixed = Unused
    /\ loader = Unused
    /\ store = Unused
    /\ cache = Unused

\* await sio.emit(event, data, to=socket_id): the event is handed to the
\* socket, or the call raises and nothing is handed over; ok is the place
\* the coroutine goes on from after the call, failed the place after a raise
Emit(event, ok, failed) ==
    \E delivered \in BOOLEAN :
        stream' = [stream EXCEPT !.calls = Append(@, [event |-> event, delivered |-> delivered]),
                                 !.at = IF delivered THEN ok ELSE failed]

\* build_system_prompt and search_with_context: an exception, no relevant
\* files, or some
StreamSearch ==
    /\ stream.at = "start"
    /\ \E outcome \in {"raises", "none", "found"} :
          stream' = [stream EXCEPT !.at = CASE outcome = "raises" -> "except"
                                            [] outcome = "none" -> "no_files"
                                            [] outcome = "found" -> "create"]
    /\ UNCHANGED <<chunkerVars, repos, fixed, loader, store, cache>>

\* if not relevant_files: emit query_complete and return msg
StreamNoFiles ==
    /\ stream.at = "no_files"
    /\ Emit("query_complete", "returned", "except")
    /\ UNCHANGED <<chunkerVars, repos, fixed, loader, store, cache>>

\* llm.client.chat.completions.create(..., stream=True)
StreamCreate ==
    /\ stream.at = "create"
    /\ \E create_raises \in BOOLEAN :
          stream' = [stream EXCEPT !.at = IF create_raises THEN "except" ELSE "loop"]
    /\ UNCHANGED <<chunkerVars, repos, fixed, loader, store, cache>>

\* one pass of `async for chunk in stream`: the stream raises, or yields a
\* chunk that is emitted as query_chunk
StreamChunk ==
    /\ stream.at = "loop"
    /\ stream.passes < MaxStreamChunks
    /\ \/ stream' = [stream EXCEPT !.at = "except"]
       \/ \E delivered \in BOOLEAN :
             stream' = [stream EXCEPT
                          !.calls = Append(@, [event |-> "query_chunk", delivered |-> delivered]),
                          !.passes = @ + 1,
                          !.at = IF delivered THEN "loop" ELSE "except"]
    /\ UNCHANGED <<chunkerVars, repos, fixed, loader, store, cache>>

\* the stream is exhausted: emit query_complete and return full_text
StreamEnd ==
    /\ stream.at = "loop"
    /\ Emit("query_complete", "returned", "except")
    /\ UNCHANGED <<chunkerVars, repos, fixed, loader, store, cache>>

\* except Exception of handle_query_stream: emit query_error and return the
\* error text; an exception of this emit leaves handle_query_stream
StreamExcept ==
    /\ stream.at = "except"
    /\ Emit("query_error", "returned", "raised")
    /\ UNCHANGED <<chunkerVars, repos, fixed, loader, store, cache>>

\* a stream_chat_response that emits query_complete after handle_query_stream
ServiceReturn_EmitsComplete ==
    /\ stream.at = "returned"
    /\ Emit("query_complete", "done", "raised")
    /\ UNCHANGED <<chunkerVars, repos, fixed, loader, store, cache>>

\* stream_chat_response after handle_query_stream returned: return full_response
ServiceReturn ==
    /\ stream.at = "returned"
    /\ stream' = [stream EXCEPT !.at = "done"]
    /\ UNCHANGED <<chunkerVars, repos, fixed, loader, store, cache>>

\* except Exception of stream_chat_response: emit query_error, then raise
ServiceExcept ==
    /\ stream.at = "raised"
    /\ Emit("query_error", "failed", "failed")
    /\ UNCHANGED <<chunkerVars, repos, fixed, loader, store, cache>>

NextStream ==
    \/ StreamSearch
    \/ StreamNoFiles
    \/ StreamCreate
    \/ StreamChunk
    \/ StreamEnd
    \/ StreamExcept
    \/ ServiceReturn
    \/ ServiceExcept

SpecStream == InitStream /\ [][NextStream]_vars

-----------------------------------------------------------------------------
(* Vocabulary of the properties *)

HasParser == file_extension \in DOMAIN parsers

\* the chunk starts with the marker line of the fallback windower
IsFallbackChunk(chunk, ext) ==
    Len(chunk) >= 2 /\ chunk[1] = FallbackMarker(ext) /\ chunk[2] = "\n"

\* the text of a chunk after its marker line
Body(chunk, ext) == IF IsFallbackChunk(chunk, ext) THEN SubSeq(chunk, 3, Len(chunk)) ELSE chunk

Bodies(chunks, ext) == [ k \in DOMAIN chunks |-> Body(chunks[k], ext) ]

-----------------------------------------------------------------------------
(* Properties of ASTChunker.chunk *)

\* C1: chunk returns the empty list when content is empty or whitespace-only
\* and a non-empty list otherwise, on the AST path and on every fallback.
C1_EmptyIffBlank ==
    pc = "chunk" => (IsBlank(content) <=> result = <<>>)

\* C1 witness: a non-blank text of several windows, one of them blank, chunked
\* for an extension that has a parser.
C1_Witness ==
    /\ pc = "chunk"
    /\ HasParser
    /\ ~IsBlank(content)
    /\ Len(Split(content)) > max_lines
    /\ IsBlank(SubSeq(content, 1, max_lines))
    /\ result # <<>>

C3_NoParserFallback ==
    (pc = "chunk" /\ ~HasParser /\ ~IsBlank(content)) =>
        /\ parse_calls = 0
        /\ Len(result) >= 1
        /\ \A k \in DOMAIN result : IsFallbackChunk(result[k], file_extension)

\* C3 witness: a non-blank text chunked for the extension .unknownext into
\* two fallback chunks.
C3_Witness ==
    /\ pc = "chunk"
    /\ file_extension = ".unknownext"
    /\ ~IsBlank(content)
    /\ parse_calls = 0
    /\ Len(result) = 2
    /\ IsFallbackChunk(result[2], file_extension)

-----------------------------------------------------------------------------
(* Properties of the AST path *)

\* the call parsed a non-blank content and no stage raised
AstCall ==
    pc = "chunk" /\ HasParser /\ ~IsBlank(content) /\ parse.raises = "none"

Root == parse.root

\* content[node.start_byte:node.end_byte], the text the walk takes for a node
Sliced(node) == Slice(content, node.start_byte, node.end_byte)

\* the characters of content that lie between the node's two byte offsets
SourceText(node) ==
    LET at(b) == CHOOSE i \in 0..Len(content) : ByteOffset(content, i) = b
    IN  SubSeq(content, at(node.start_byte) + 1, at(node.end_byte))

\* header line, text, footer line
Framed(node, category, text) ==
    (<<Header([start_line |-> node.start_point[1] + 1,
               end_line |-> node.end_point[1] + 1], category), "\n">> \o text)
        \o <<"\n", Footer(category)>>

\* the chunk of a node whose sliced text is not blank, else nothing
ChunkIfText(node, category) ==
    IF IsBlank(Sliced(node)) THEN <<>> ELSE <<Framed(node, category, Sliced(node))>>

AllFallback ==
    result # <<>> /\ \A k \in DOMAIN result : IsFallbackChunk(result[k], file_extension)

OnlyExpressionStatements ==
    \A k \in DOMAIN Root.children : Root.children[k].type = "expression_statement"

\* C4, as claimed: a parsed tree that holds, apart from the root, only
\* expression statements gives fallback chunks.
C4_Original ==
    (AstCall /\ OnlyExpressionStatements) => (~raised /\ AllFallback)

\* C4, amended: such a tree gives one AST chunk, labelled MODULES, with the
\* sliced text of the root when the root has the root kind of its grammar
\* (every table maps it to 'modules') and that text is not blank; otherwise
\* (a root of another kind, ERROR) it gives fallback chunks; never an empty
\* list and never an exception.
C4_RootChunkElseFallback ==
    (AstCall /\ OnlyExpressionStatements) =>
        /\ ~raised
        /\ IF Root.type = RootKind(file_extension) /\ ~IsBlank(Sliced(Root))
           THEN result = <<Framed(Root, "modules", Sliced(Root))>>
           ELSE AllFallback

\* C4 witness: a module with two expression statements, returned as one chunk.
C4_Witness ==
    /\ AstCall
    /\ OnlyExpressionStatements
    /\ Len(Root.children) = 2
    /\ Root.type = "module"
    /\ Len(result) = 1
    /\ ~IsFallbackChunk(result[1], file_extension)

FunctionKinds == {"function_definition", "function_item"}
ImportKinds == {"import_statement", "use_declaration"}

\* the root has exactly one function definition and one import as children
OneFunctionOneImport ==
    /\ Root.type = RootKind(file_extension)
    /\ Len(Root.children) = 2
    /\ \E f, i \in DOMAIN Root.children :
          Root.children[f].type \in FunctionKinds /\ Root.children[i].type \in ImportKinds

FunctionNode == Root.children[CHOOSE k \in DOMAIN Root.children :
                                  Root.children[k].type \in FunctionKinds]
ImportNode == Root.children[CHOOSE k \in DOMAIN Root.children :
                                Root.children[k].type \in ImportKinds]

RECURSIVE Visited(_, _)
RECURSIVE VisitedAll(_, _, _)
\* the nodes down to depth 10 in pre-order
Visited(node, depth) ==
    IF depth > 10 THEN <<>> ELSE <<node>> \o VisitedAll(node.children, 1, depth + 1)

VisitedAll(children, k, depth) ==
    IF k > Len(children) THEN <<>>
    ELSE Visited(children[k], depth) \o VisitedAll(children, k + 1, depth)

CategoryOf(node) == GetStructureType(node.type, file_extension)

\* the visited nodes that have a category and a non-blank sliced text
Matches ==
    LET matched(node) == CategoryOf(node) # None /\ ~IsBlank(Sliced(node))
    IN  SelectSeq(Visited(Root, 0), matched)

RECURSIVE FirstSeen(_, _, _)
\* the categories of Matches in the order in which the walk first meets them
FirstSeen(matches, k, seen) ==
    IF k > Len(matches) THEN seen
    ELSE FirstSeen(matches, k + 1,
                   IF \E j \in DOMAIN seen : seen[j] = CategoryOf(matches[k])
                   THEN seen ELSE Append(seen, CategoryOf(matches[k])))

RECURSIVE InCategoryOrder(_, _)
\* the chunks of Matches, category after category as `order` lists them, and
\* in visiting order within a category
InCategoryOrder(order, t) ==
    IF t > Len(order) THEN <<>>
    ELSE LET has(node) == CategoryOf(node) = order[t]
             nodes == SelectSeq(Matches, has)
         IN  [ k \in DOMAIN nodes |-> Framed(nodes[k], order[t], Sliced(nodes[k])) ]
                \o InCategoryOrder(order, t + 1)

\* C6, as claimed: the AST chunks come category after category in the order in
\* which the pre-order walk first met each category.
C6_Original ==
    (AstCall /\ Matches # <<>>) =>
        result = InCategoryOrder(FirstSeen(Matches, 1, <<>>), 1)

\* C6, amended: the AST chunks come category after category in the fixed order
\* functions, classes, modules, interfaces, enums, constants, imports, comments,
\* and in visiting order within one category.
C6_FixedCategoryOrder ==
    (AstCall /\ Matches # <<>>) =>
        result = InCategoryOrder(<<"functions", "classes", "modules", "interfaces",
                                   "enums", "constants", "imports", "comments">>, 1)

\* C6 witness: two function definitions under a module; the second chunk is
\* the second function, the third the module that was met first.
C6_Witness ==
    /\ AstCall
    /\ Root.type = "module"
    /\ Len(Root.children) = 2
    /\ \A k \in DOMAIN Root.children : Root.children[k].type = "function_definition"
    /\ Len(result) = 3
    /\ result[2] = Framed(Root.children[2], "functions", Sliced(Root.children[2]))
    /\ result[3] = Framed(Root, "modules", Sliced(Root))
    /\ result[1] # result[2]

-----------------------------------------------------------------------------
(* Properties of the classifier *)

\* C7, as claimed: a kind that the Rust table lists for functions and for
\* classes (impl_item) is classified as a class.
C7_Original ==
    (pc = "classify" /\ classified.ext = ".rs"
        /\ classified.type \in RustFunctionKinds \cap RustClassKinds)
        => classified.category = "classes"

-----------------------------------------------------------------------------
(* Properties of the fallback windower *)

\* the windows of max_lines lines of the text, the last one possibly shorter
Windows(text) ==
    LET lines == Split(text)
        n == Len(lines)
    IN  [ w \in 1..((n + max_lines - 1) \div max_lines) |->
            SubSeq(lines, (w - 1) * max_lines + 1, Min(w * max_lines, n)) ]

NoBlankWindow(text) ==
    \A w \in DOMAIN Windows(text) : ~IsBlank(Join(Windows(text)[w]))

C9_Original ==
    pc = "fallback" => (IsBlank(content) <=> result = <<>>)

\* the lines lines[a .. a+m-1] are the lines `body`
LinesAt(lines, a, body) ==
    a + Len(body) - 1 <= Len(lines) /\ SubSeq(lines, a, a + Len(body) - 1) = body

\* C10, as claimed: every chunk of the windower is the marker line followed by
\* at most 50 consecutive lines of the text, and the chunks follow the order
\* of the text without sharing a line.
C10_Original ==
    pc = "fallback" =>
        LET lines == Split(content)
            body(k) == Split(Body(result[k], file_extension))
        IN  /\ \A k \in DOMAIN result :
                  /\ IsFallbackChunk(result[k], file_extension)
                  /\ Len(body(k)) <= max_lines
            /\ \E start \in [DOMAIN result -> DOMAIN lines] :
                  /\ \A k \in DOMAIN result : LinesAt(lines, start[k], body(k))
                  /\ \A k \in DOMAIN result :
                        k > 1 => start[k] >= start[k - 1] + Len(body(k - 1))

-----------------------------------------------------------------------------
(* The walk of the tree: depth cap, nested matches, what is recorded *)

RECURSIVE NodesWithin(_, _)
\* the nodes of the tree under `node` that lie at most `budget` levels below it
NodesWithin(node, budget) ==
    IF budget < 0 THEN {}
    ELSE {node} \cup UNION { NodesWithin(node.children[k], budget - 1) :
                               k \in DOMAIN node.children }

RECURSIVE Height(_)
\* number of levels below `node`
Height(node) ==
    IF node.children = <<>> THEN 0
    ELSE 1 + (CHOOSE h \in { Height(node.children[k]) : k \in DOMAIN node.children } :
                 \A k \in DOMAIN node.children : Height(node.children[k]) <= h)

\* the node has a category and the text the walk takes for it is not blank
IsMatch(node) == CategoryOf(node) # None /\ ~IsBlank(Sliced(node))

\* number of entries the walk has to make under `category` for the nodes of seq
CountOf(seq, category) ==
    Cardinality({ i \in DOMAIN seq : IsMatch(seq[i]) /\ CategoryOf(seq[i]) = category })

\* C11: with the root at depth 0, the walk runs on no node deeper than 10 and
\* records nothing for such a node: every visited node lies within 10 levels
\* of the root, and each category holds no more entries than the nodes within
\* 10 levels account for, also when the tree is deeper than that.
C11_DepthCap ==
    pc = "extract" =>
        /\ \A i \in DOMAIN visited : visited[i] \in NodesWithin(Root, 10)
        /\ \A category \in DOMAIN extracted :
              Len(extracted[category]) <= CountOf(Visited(Root, 0), category)

\* C11 witness: a tree 12 levels deep whose only function definition is the
\* innermost node; the walk ran on 11 nodes and recorded no function.
C11_Witness ==
    /\ pc = "extract"
    /\ Height(Root) = 12
    /\ \E node \in NodesWithin(Root, 12) \ NodesWithin(Root, 10) :
          node.type = "function_definition" /\ IsMatch(node)
    /\ \A node \in NodesWithin(Root, 10) : node.type # "function_definition"
    /\ Len(visited) = 11
    /\ extracted["functions"] = <<>>

\* what the walk appends to the dict for a node
StructureOf(node) ==
    [type |-> node.type, text |-> Sliced(node),
     start_line |-> node.start_point[1] + 1, end_line |-> node.end_point[1] + 1,
     start_byte |-> node.start_byte, end_byte |-> node.end_byte]

\* C12: every node within 10 levels of the root is visited, in pre-order,
\* whether or not an ancestor was recorded, and every match among them is
\* recorded under its category: a matched node and its matched descendants
\* are all there.
C12_MatchedAncestorsDoNotPrune ==
    pc = "extract" =>
        /\ visited = Visited(Root, 0)
        /\ \A category \in DOMAIN extracted :
              LET has(node) == IsMatch(node) /\ CategoryOf(node) = category
                  nodes == SelectSeq(Visited(Root, 0), has)
              IN  extracted[category] = [ k \in DOMAIN nodes |-> StructureOf(nodes[k]) ]

\* C12 witness: a function definition inside a function definition inside the
\* module; the module and both functions are recorded.
C12_Witness ==
    /\ pc = "extract"
    /\ Len(extracted["modules"]) = 1
    /\ Len(extracted["functions"]) >= 2
    /\ \E i \in DOMAIN visited :
          /\ visited[i].type = "function_definition"
          /\ visited[i].children # <<>>
          /\ visited[i].children[1].type = "function_definition"
          /\ IsMatch(visited[i]) /\ IsMatch(visited[i].children[1])

\* start and end of the entries of a category, in the order of the list
SpansOf(entries) ==
    [ k \in DOMAIN entries |-> <<entries[k].type, entries[k].start_byte, entries[k].end_byte>> ]

\* C13, as claimed: a visited node is recorded, once and under the category of
\* its kind, exactly when its kind has a category and the source text it spans
\* is not blank.
C13_Original ==
    pc = "extract" =>
        \A category \in DOMAIN extracted :
            LET has(node) == /\ CategoryOf(node) = category
                             /\ ~IsBlank(SourceText(node))
                nodes == SelectSeq(visited, has)
            IN  SpansOf(extracted[category])
                    = [ k \in DOMAIN nodes |->
                          <<nodes[k].type, nodes[k].start_byte, nodes[k].end_byte>> ]

\* the call returned chunks of the AST path
AstChunks ==
    AstCall /\ ~raised /\ result # <<>> /\ ~IsFallbackChunk(result[1], file_extension)

\* C14, as claimed: what an AST chunk holds between its header line and its
\* footer line is the source text that a matched node spans, from its start
\* byte to its end byte in the UTF-8 input, also for text with multi-byte
\* characters.
C14_Original ==
    AstChunks =>
        \A k \in DOMAIN result :
            \E node \in NodesWithin(Root, 10) :
                /\ CategoryOf(node) # None
                /\ result[k] = Framed(node, CategoryOf(node), SourceText(node))

-----------------------------------------------------------------------------
(* The grammars of the process *)

\* C15, as claimed: within a process each grammar is initialised at most once,
\* however many extensions share it and however many ingestion calls run.
C15_Original ==
    \A g \in Grammars : grammar_inits[g] <= 1

\* C16: when the initialisation of some grammar modules raises, the ASTChunker
\* is constructed all the same, every extension of every other module has its
\* parser, and a non-blank file with an extension of a failed module is
\* chunked by the fallback windower without a call of a parser.
C16_FailedGrammarFallsBack ==
    chunkers >= 1 =>
        /\ DOMAIN parsers =
              { language_configs[i][1] :
                  i \in { j \in DOMAIN language_configs : language_configs[j][2] \notin failing } }
        /\ (/\ pc = "chunk"
            /\ file_extension \in ConfiguredExtensions
            /\ ModuleOf(file_extension) \in failing
            /\ ~IsBlank(content))
           => (~raised /\ AllFallback /\ parse_calls = 0)

\* C16 witness: the Rust grammar alone failed; a .rs file came back as fallback
\* chunks and the parsers of Python and Swift, configured before and after
\* Rust, are there.
C16_Witness ==
    /\ pc = "chunk"
    /\ failing = {"tree_sitter_rust"}
    /\ file_extension = ".rs"
    /\ AllFallback
    /\ {".py", ".swift"} \subseteq DOMAIN parsers
    /\ ".rs" \notin DOMAIN parsers

\* C17, as claimed: the failure to load a grammar is logged at most once per
\* grammar identifier in a process.
C17_Original ==
    \A g \in Grammars : load_warnings[g] <= 1

-----------------------------------------------------------------------------
(* The stages of one extraction *)

\* the runs of stages that end in a terminal stage
CompletePaths ==
    { <<"Unresolved", "Resolved", "Parsed", "Classified", "Chunked">>,
      <<"Unresolved", "Fallback">>,
      <<"Unresolved", "Resolved", "Fallback">>,
      <<"Unresolved", "Resolved", "Parsed", "Fallback">>,
      <<"Unresolved", "Resolved", "Parsed", "Classified", "Fallback">> }

\* path is the beginning of q
IsPrefix(q) == Len(path) <= Len(q) /\ path = SubSeq(q, 1, Len(path))

\* C18: the extraction of a non-blank file goes through Unresolved, Resolved,
\* Parsed, Classified in that order and leaves that line only to Fallback or,
\* after Classified, to Chunked; it always has a next step until it is in
\* Chunked or Fallback, where it stops with a non-empty result, the one chunk
\* returns; no exception leaves the call.
C18_StagesEndInChunkedOrFallback ==
    ~IsBlank(content) =>
        /\ \E q \in CompletePaths : IsPrefix(q)
        /\ path # <<>> => pc = path[Len(path)]
        /\ pc \in {"ready", "Unresolved", "Resolved", "Parsed", "Classified"}
              => ENABLED NextStages
        /\ pc \in {"Chunked", "Fallback"} =>
              /\ ~ENABLED NextStages
              /\ path \in CompletePaths
              /\ ~raised
              /\ result # <<>>
              /\ result = Chunk(content, file_extension, parsers, parse).chunks
              /\ (pc = "Fallback") = IsFallbackChunk(result[1], file_extension)

\* C18 witness: a tree without a match went through all four stages and ended
\* in Fallback.
C18_Witness ==
    /\ pc = "Fallback"
    /\ path = <<"Unresolved", "Resolved", "Parsed", "Classified", "Fallback">>
    /\ parse.raises = "none"
    /\ visited # <<>>
    /\ AllFallback

-----------------------------------------------------------------------------
(* The Documents of one file *)

\* the Documents of the file that one chunking strategy made, in list order
DocsOfType(chunk_type) ==
    LET has(d) == d.chunk_type = chunk_type IN SelectSeq(docs, has)

\* C19: in the Documents of one file, taken per chunking strategy in list
\* order, chunk_index is 0, 1, ..., n-1 and every total_chunks is n, the number
\* of chunks of that strategy for the file; the AST Documents are the chunks
\* that chunk returned.
C19_DenseIndexes ==
    /\ \A chunk_type \in {"fixed", "semantic", "ast"} :
          LET ds == DocsOfType(chunk_type)
          IN  \A k \in DOMAIN ds :
                 ds[k].chunk_index = k - 1 /\ ds[k].total_chunks = Len(ds)
    /\ pc \in {"loaded", "indexed"} =>
          /\ Len(DocsOfType("ast")) = Len(result)
          /\ \A k \in DOMAIN result : DocsOfType("ast")[k].page_content = result[k]

\* C19 witness: index_repository made two fixed, two semantic and three AST
\* Documents for one file.
C19_Witness ==
    /\ pc = "indexed"
    /\ Len(DocsOfType("fixed")) = 2
    /\ Len(DocsOfType("semantic")) = 2
    /\ Len(DocsOfType("ast")) = 3
    /\ docs[Len(docs)].chunk_index = 2
    /\ docs[Len(docs)].total_chunks = 3

-----------------------------------------------------------------------------
(* Calls on the same input *)

-----------------------------------------------------------------------------
(* The size of the files that reach chunk *)

\* C21, as claimed: both loops test the size of a file before they call chunk,
\* so chunk is never called on a content of more than 500000 characters.
C21_Original ==
    pc \in {"loaded", "indexed"} => StrLen(content) <= 500000

-----------------------------------------------------------------------------
(* The repository manager *)

\* C22, as claimed: every call of clone_repo that returns normally returns the
\* repo id of its URL, whether this call cloned the repository or an earlier
\* call had.
C22_Original ==
    \A i \in DOMAIN repos.log :
        repos.log[i].ended = "returned"
            => repos.log[i].returned = GetRepoId(repos.log[i].github_url)

\* C27, as claimed: after a call of clone_repo that raised, the next call for
\* the same URL attempts the clone again and does not take the branch for a
\* repository that is already cloned.
C27_Original ==
    \A i \in DOMAIN repos.log : \A j \in DOMAIN repos.log :
        (/\ i < j
         /\ repos.log[i].github_url = repos.log[j].github_url
         /\ repos.log[i].ended # "returned"
         /\ \A k \in (i + 1)..(j - 1) : repos.log[k].github_url # repos.log[i].github_url)
        => repos.log[j].branch = "clone"

-----------------------------------------------------------------------------
(* The fixed-size chunker *)

\* C23, as claimed: for every text and every configuration with
\* 0 <= overlap < chunk_size, the window start is strictly larger after every
\* pass of the loop, also after a pass that cut the chunk back to a newline.
C23_Original ==
    fixed.at = "loop" =>
        \A k \in DOMAIN fixed.starts :
            fixed.starts[k] < (IF k < Len(fixed.starts) THEN fixed.starts[k + 1]
                               ELSE fixed.start)

\* C24: with overlap <= chunk_size // 2 the call returns, for the empty text
\* the empty list, and for any other text chunks that cover it: the first
\* starts at index 0, each later one starts exactly overlap characters before
\* the end of the one before, the last ends at len(text), every chunk is the
\* text between its start and its end and has 1 to chunk_size characters; the
\* starts increase strictly, so the loop ends.
C24_ChunksCoverText ==
    fixed.overlap <= fixed.chunk_size \div 2 =>
        LET n == Len(fixed.chunks)
            start_of(k) == fixed.starts[k]
            end_of(k) == fixed.starts[k] + Len(fixed.chunks[k])
        IN  /\ n < MaxIterations
            /\ \A k \in 1..n :
                  /\ Len(fixed.chunks[k]) \in 1..fixed.chunk_size
                  /\ fixed.chunks[k] = SubSeq(fixed.text, start_of(k) + 1, end_of(k))
                  /\ k = 1 => start_of(k) = 0
                  /\ k > 1 => (start_of(k) = end_of(k - 1) - fixed.overlap
                                 /\ start_of(k) > start_of(k - 1))
            /\ fixed.at = "returned" =>
                  IF fixed.text = <<>> THEN n = 0
                  ELSE n >= 1 /\ end_of(n) = Len(fixed.text)

\* C24 witness: chunk_size 4, overlap 2; a chunk was cut back to its last
\* newline, the next chunk starts 2 characters before that cut, and the call
\* returned.
C24_Witness ==
    /\ fixed.at = "returned"
    /\ fixed.chunk_size = 4 /\ fixed.overlap = 2
    /\ Len(fixed.chunks) >= 3
    /\ Len(fixed.chunks[1]) = 3
    /\ fixed.text[4] = "\n"
    /\ fixed.starts[2] = 1

-----------------------------------------------------------------------------
(* The two kinds of chunk in one list *)

\* the chunk is the header, text and footer of a node of the tree
IsAstChunk(chunk) ==
    \E node \in NodesWithin(Root, 10) :
        /\ CategoryOf(node) # None
        /\ chunk = Framed(node, CategoryOf(node), Sliced(node))

\* C25: the list one call of chunk returns is never mixed: either every chunk
\* is an AST chunk, with a category header and an 'End of' footer, and none
\* has the fallback marker, or every chunk is a fallback chunk; and fallback
\* chunks are returned only when there is no parser, a stage raised, or the
\* walk gave no chunk.
C25_NeverMixed ==
    (pc = "chunk" /\ result # <<>>) =>
        \/ /\ \A k \in DOMAIN result :
                 IsAstChunk(result[k]) /\ ~IsFallbackChunk(result[k], file_extension)
           /\ HasParser /\ parse.raises = "none"
        \/ /\ AllFallback
           /\ \A k \in DOMAIN result :
                 result[k][Len(result[k])]
                     \notin { Footer(StructureKeys[t]) : t \in DOMAIN StructureKeys }
           /\ ~HasParser \/ parse.raises # "none" \/ Matches = <<>>

\* C25 witness: a call that returned three AST chunks and no fallback chunk.
C25_Witness ==
    /\ AstChunks
    /\ Len(result) = 3
    /\ \A k \in DOMAIN result : ~IsFallbackChunk(result[k], file_extension)
    /\ result[1][Len(result[1])] = Footer("functions")

-----------------------------------------------------------------------------
(* The counters of load_codebase_as_chunked_docs *)

-----------------------------------------------------------------------------
(* The vector store *)

\* number of vectors in the batches upserted so far
UpsertedCount ==
    LET RECURSIVE total(_)
        total(k) == IF k = 0 THEN 0 ELSE Len(store.upserted[k]) + total(k - 1)
    IN  total(Len(store.upserted))

\* C28, as claimed: when add_documents returns, the count it returns is the
\* number of vectors upserted during the call, so success False with count 0
\* means that no vector was upserted; the batches hold at most 100 vectors
\* and are consecutive pieces of the embedded vectors in input order.
C28_Original ==
    store.at = "returned" =>
        /\ store.returned.count = UpsertedCount
        /\ \A k \in DOMAIN store.upserted :
              /\ Len(store.upserted[k]) \in 1..100
              /\ store.upserted[k]
                    = SubSeq(store.vectors, 100 * (k - 1) + 1,
                             100 * (k - 1) + Len(store.upserted[k]))

-----------------------------------------------------------------------------
(* The semantic cache *)

\* the entries of seq, as a set
EntriesOf(seq) == { seq[i] : i \in DOMAIN seq }

\* the entries the last add_query removed
Removed == (EntriesOf(cache.before) \cup {cache.added}) \ EntriesOf(cache.entries)

\* C29: the cache never holds more than 1000 entries; the entries
\* an overflowing add removes are those with the smallest timestamps, and the
\* entry just added is retained.
C29_Original ==
    /\ Len(cache.entries) <= 1000
    /\ cache.adds > 0 =>
          /\ \A gone \in Removed : \A kept \in EntriesOf(cache.entries) :
                gone.timestamp <= kept.timestamp
          /\ cache.added \in EntriesOf(cache.entries)

-----------------------------------------------------------------------------
(* Streaming events *)

TerminalEvents == {"query_complete", "query_error"}

\* the events handed to the socket so far, in order
Emitted ==
    LET handed(c) == c.delivered
        sent == SelectSeq(stream.calls, handed)
    IN  [ i \in DOMAIN sent |-> sent[i].event ]

\* zero or more query_chunk events, then at most one terminal event
ChunksThenTerminal ==
    /\ \A i \in DOMAIN Emitted : i < Len(Emitted) => Emitted[i] = "query_chunk"
    /\ Cardinality({ i \in DOMAIN Emitted : Emitted[i] \in TerminalEvents }) <= 1

\* C30, original statement: the events emitted to the socket are query_chunk
\* events followed by exactly one terminal event, query_complete or
\* query_error, once stream_chat_response has finished.
C30_Original ==
    /\ ChunksThenTerminal
    /\ stream.at \in {"done", "failed"} =>
          /\ Emitted # <<>>
          /\ Emitted[Len(Emitted)] \in TerminalEvents

\* C30: at every moment the events handed to the socket are query_chunk events
\* followed by at most one terminal event, so nothing follows a terminal event
\* and none is handed over twice; when stream_chat_response returns the last
\* event is the one terminal event; when it raises, the query_error of
\* handle_query_stream was not handed over and the only possible terminal
\* event is the query_error of stream_chat_response.
C30_ChunksThenOneTerminal ==
    /\ ChunksThenTerminal
    /\ stream.at = "done" =>
          /\ Emitted # <<>>
          /\ Emitted[Len(Emitted)] \in TerminalEvents
    /\ stream.at = "failed" =>
          /\ Len(stream.calls) >= 2
          /\ ~ stream.calls[Len(stream.calls) - 1].delivered
          /\ stream.calls[Len(stream.calls) - 1].event = "query_error"
          /\ \A i \in DOMAIN Emitted : Emitted[i] \in {"query_chunk", "query_error"}

\* C30 witness: a stream that handed over two chunks and then query_complete,
\* and was returned by stream_chat_response.
C30_Witness ==
    /\ stream.at = "done"
    /\ Emitted = <<"query_chunk", "query_chunk", "query_complete">>

====
